---- MODULE Spec2Model ----
(***************************************************************************)
(* Model of create-pull-request.py: runs of the script against a shared    *)
(* remote repository and hosting API.  Each run owns a clone (working     *)
(* tree, index, stash, remote-tracking refs) and walks through the script *)
(* one external operation (git command or API call) at a time.  Strings   *)
(* that the code slices or compares by prefix are sequences of            *)
(* one-character strings.                                                  *)
(***************************************************************************)
EXTENDS Integers, Sequences, FiniteSets, TLC

(* ----------------------------- bounds --------------------------------- *)
\* Largest value of the wall clock (seconds) that a run can read.
MaxTime == 1

\* The runs of the script, in the order in which they are triggered.
Runs == {1, 2}

(* ------------------------- string helpers ----------------------------- *)
\* str.startswith
StartsWith(s, p) == Len(p) <= Len(s) /\ SubSeq(s, 1, Len(p)) = p

\* s[n:]
SliceFrom(s, n) == SubSeq(s, n + 1, Len(s))

Digit(d) == CASE d = 0 -> "0" [] d = 1 -> "1" [] d = 2 -> "2" [] d = 3 -> "3"
              [] d = 4 -> "4" [] d = 5 -> "5" [] d = 6 -> "6" [] d = 7 -> "7"
              [] d = 8 -> "8" [] d = 9 -> "9"

\* "%s" % n for a natural number n
RECURSIVE IntToStr(_)
IntToStr(n) == IF n < 10 THEN <<Digit(n)>>
               ELSE IntToStr(n \div 10) \o <<Digit(n % 10)>>

\* "%s-%s" % (a, b)
Suffixed(a, b) == a \o <<"-">> \o b

\* the characters c with c.isspace(), which str.strip removes.
\* In ASCII: blank, tab, newline, carriage return, form feed, vertical tab
\* and the four separators 0x1c-0x1f.
AsciiWhitespace == {" ", "\t", "\n", "\r", "\f", "", "", "", "", ""}

\* Outside ASCII: next line, no-break space, ogham space mark, and the
\* spaces and separators from U+2000 on, which are written by code point.
UnicodeWhitespace ==
    {"", " ", " ",
     "U+2000", "U+2001", "U+2002", "U+2003", "U+2004", "U+2005", "U+2006", "U+2007",
     "U+2008", "U+2009", "U+200A", "U+2028", "U+2029", "U+202F", "U+205F", "U+3000"}

Whitespace == AsciiWhitespace \cup UnicodeWhitespace

\* str.lstrip, str.rstrip, str.strip
RECURSIVE LStrip(_)
LStrip(s) == IF s # <<>> /\ Head(s) \in Whitespace THEN LStrip(Tail(s)) ELSE s

RECURSIVE RStrip(_)
RStrip(s) ==
    IF s # <<>> /\ s[Len(s)] \in Whitespace THEN RStrip(SubSeq(s, 1, Len(s) - 1)) ELSE s

Strip(s) == RStrip(LStrip(s))

\* str.split(',')
RECURSIVE SplitComma(_, _)
SplitComma(s, cur) ==
    IF s = <<>> THEN <<cur>>
    ELSE IF Head(s) = "," THEN <<cur>> \o SplitComma(Tail(s), <<>>)
    ELSE SplitComma(Tail(s), Append(cur, Head(s)))

RECURSIVE FilterNonEmpty(_)
FilterNonEmpty(l) ==
    IF l = <<>> THEN <<>>
    ELSE IF Head(l) = <<>> THEN FilterNonEmpty(Tail(l))
    ELSE <<Head(l)>> \o FilterNonEmpty(Tail(l))

cs_string_to_list(str) ==
    LET parts == SplitComma(str, <<>>)
        l == [i \in 1..Len(parts) |-> Strip(parts[i])]
    IN  FilterNonEmpty(l)

(* --------------------------- literals --------------------------------- *)
\* 'refs/heads/'
RefsHeads == <<"r","e","f","s","/","h","e","a","d","s","/">>

\* 'create-pull-request/patch', the default of PULL_REQUEST_BRANCH
DefaultBranch == <<"c","r","e","a","t","e","-","p","u","l","l","-",
                   "r","e","q","u","e","s","t","/","p","a","t","c","h">>

\* the value of an environment variable that is not set: no string of
\* characters
Unset == <<"unset">>

\* os.getenv(NAME, default)
Getenv(value, default) == IF value = Unset THEN default ELSE value

\* the values BRANCH_SUFFIX is compared with at lines 186-202
ShortCommitHash == <<"s","h","o","r","t","-","c","o","m","m","i","t","-","h","a","s","h">>

Timestamp == <<"t","i","m","e","s","t","a","m","p">>

Random == <<"r","a","n","d","o","m">>

None == <<"n","o","n","e">>

\* a variable of the script that has not been assigned yet
Unassigned == "unassigned"

\* 'main', the default branch of the remote, and the ref origin/HEAD
Main == <<"m","a","i","n">>

HEAD == <<"H","E","A","D">>

(* ------------------------ trigger events ------------------------------ *)
\* str(bool), as "{deleted}".format renders the JSON boolean
PyStr(b) == IF b THEN "True" ELSE "False"

\* ignore_event comparing the rendered boolean with "true": a deletion is
\* never recognised
ignore_event_lowercase(name, data) ==
    IF name = "push"
    THEN IF PyStr(data.deleted) = "true" THEN TRUE
         ELSE IF ~StartsWith(data.ref, RefsHeads) THEN TRUE
         ELSE FALSE
    ELSE FALSE

ignore_event(name, data) ==
    IF name = "push"
    THEN IF PyStr(data.deleted) = "True" THEN TRUE
         ELSE IF ~StartsWith(data.ref, RefsHeads) THEN TRUE
         ELSE FALSE
    ELSE FALSE

\* what ignore_event prints
ignore_message(name, data) ==
    IF name = "push"
    THEN IF PyStr(data.deleted) = "True" THEN <<"Ignoring delete branch event.">>
         ELSE IF ~StartsWith(data.ref, RefsHeads)
              THEN <<"Ignoring events for tags and remotes.">>
         ELSE <<>>
    ELSE <<>>

(* ------------------- the version-control collaborator ----------------- *)
(* A tree maps each file to its content; Absent is a file that is not     *)
(* there.  File x is tracked in the commit the run starts from, file z is *)
(* not: a z in the working tree is an untracked file.                     *)
Files == {"x", "z"}

Absent == "-"

\* the content of a file left with conflict markers by a failed merge
Markers == "<<<"

\* the tree of the commit the workflow checked out
BaseTree == [x |-> "base", z |-> Absent]

\* the stash is a stack of saved working trees, newest first
NoStash == <<>>

StashTop(repo) == repo.stash[1]

\* HEAD of a clone that is on no branch
Detached == <<>>

\* the tree of the branch <name> among refs
RefTree(refs, name) == (CHOOSE ref \in refs : ref.name = name).tree

\* the clone a run starts from: HEAD at commit sha, working tree wt, and
\* the remote-tracking refs fetched from the remote
\* The clone is on the local branch of a branch ref and on no branch
\* (Detached) for any other ref; it has a remote-tracking ref for every
\* branch of the remote and origin/HEAD for the remote's default branch.
\* abbrev is the length git gives an abbreviated hash in this clone, and
\* fetched keeps the branches the remote had when the clone was made.
Clone(sha, abbrev, wt, remote, ref) ==
    LET onBranch == StartsWith(ref, RefsHeads)
        cur == IF onBranch THEN SliceFrom(ref, 11) ELSE Detached
    IN  [sha |-> sha, abbrev |-> abbrev, head |-> BaseTree, index |-> BaseTree, wt |-> wt,
         unmerged |-> {}, stash |-> NoStash, cur |-> cur,
         locals |-> IF onBranch THEN {cur} ELSE {},
         refs |-> remote \cup {[name |-> HEAD, tree |-> RefTree(remote, Main)]},
         fetched |-> remote,
         ident |-> Unassigned, url |-> Unassigned]

\* git rev-parse --short HEAD: the abbreviation has core.abbrev characters,
\* 7 in a small repository and more as the number of objects grows
get_head_short_sha1(repo) == SubSeq(repo.sha, 1, repo.abbrev)


\* the lookup of lines 48-52 comparing the ref names, which carry the
\* remote's name, with the bare branch name: nothing is ever found
remote_branch_exists_bare(repo, name) ==
    \E ref \in repo.refs : <<"o","r","i","g","i","n","/">> \o ref.name = name

\* for ref in repo.remotes.origin.refs: ref.name == "origin/%s" % branch
remote_branch_exists(repo, name) == \E ref \in repo.refs : ref.name = name

\* repo.is_dirty(): staged changes, or tracked files modified in the tree
IsDirty(repo) ==
    \/ repo.unmerged # {}
    \/ \E f \in Files : repo.index[f] # repo.head[f]
    \/ \E f \in Files : repo.index[f] # Absent /\ repo.wt[f] # repo.index[f]

\* repo.untracked_files
UntrackedFiles(repo) == {f \in Files : repo.index[f] = Absent /\ repo.wt[f] # Absent}

\* git stash --include-untracked: with nothing to save no entry is made
GitStash(repo) ==
    IF ~IsDirty(repo) /\ UntrackedFiles(repo) = {}
    THEN repo
    ELSE [repo EXCEPT !.stash = <<repo.wt>> \o repo.stash, !.wt = repo.head, !.index = repo.head]

\* git checkout <branch>, the branch known only as origin/<branch>: a
\* local branch of that name is made and checked out.  The name HEAD is
\* read as the revision HEAD: the clone stays where it is.
GitCheckout(repo, name) ==
    IF name = HEAD THEN repo
    ELSE LET t == RefTree(repo.refs, name)
         IN  [repo EXCEPT !.head = t, !.index = t, !.wt = t, !.cur = name,
                          !.locals = repo.locals \cup {name}]

\* refs are files: a branch cannot be created where a branch of the same
\* name exists, nor below or above an existing branch (a/b beside a)
RefClash(a, b) ==
    \/ a = b
    \/ StartsWith(a, b \o <<"/">>)
    \/ StartsWith(b, a \o <<"/">>)

\* git checkout HEAD -b <branch>: refused when a local branch is in the way
GitCheckoutNewOk(repo, name) == \A b \in repo.locals : ~RefClash(name, b)

GitCheckoutNew(repo, name) ==
    [repo EXCEPT !.cur = name, !.locals = repo.locals \cup {name}]

\* Files of the stash that were tracked when it was made / that were not.
StashTracked == {f \in Files : BaseTree[f] # Absent}

StashUntracked(repo) == {f \in Files : BaseTree[f] = Absent /\ StashTop(repo)[f] # Absent}

\* three-way merge of the stash (theirs) onto HEAD (ours), base BaseTree
Conflicts(repo) ==
    {f \in StashTracked : /\ StashTop(repo)[f] # BaseTree[f]
                          /\ repo.head[f] # BaseTree[f]
                          /\ StashTop(repo)[f] # repo.head[f]}

Merged(repo, f) == IF StashTop(repo)[f] = BaseTree[f] THEN repo.head[f] ELSE StashTop(repo)[f]

\* an untracked file of the stash is not restored over an existing file
Collisions(repo) == {f \in StashUntracked(repo) : repo.head[f] # Absent}

\* git stash pop succeeds when there is an entry, the merge is clean and
\* every untracked file is restored
GitStashPopOk(repo) ==
    /\ repo.stash # NoStash
    /\ Conflicts(repo) = {}
    /\ Collisions(repo) = {}

\* what a conflicted merge leaves in the working tree
ConflictContent(repo, f) ==
    IF StashTop(repo)[f] = Absent THEN repo.head[f]
    ELSE IF repo.head[f] = Absent THEN StashTop(repo)[f]
    ELSE Markers

\* the pop written as apply followed by drop: the entry is dropped also
\* when the merge conflicted
GitStashPop_drop(repo) ==
    IF repo.stash = NoStash THEN repo
    ELSE
      LET c == Conflicts(repo)
          wt1 == [f \in Files |->
                    IF f \in c THEN ConflictContent(repo, f)
                    ELSE IF f \in StashTracked THEN Merged(repo, f)
                    ELSE IF f \in StashUntracked(repo) /\ f \notin Collisions(repo)
                         THEN StashTop(repo)[f]
                    ELSE repo.wt[f]]
      IN  [repo EXCEPT !.wt = wt1, !.unmerged = c, !.stash = Tail(repo.stash)]

\* git stash pop: the entry is dropped only when the pop succeeded
GitStashPop(repo) ==
    IF repo.stash = NoStash THEN repo
    ELSE
      LET c == Conflicts(repo)
          wt1 == [f \in Files |->
                    IF f \in c THEN ConflictContent(repo, f)
                    ELSE IF f \in StashTracked THEN Merged(repo, f)
                    ELSE IF f \in StashUntracked(repo) /\ f \notin Collisions(repo)
                         THEN StashTop(repo)[f]
                    ELSE repo.wt[f]]
          ix1 == [f \in Files |->
                    IF c # {} /\ f \in StashTracked /\ f \notin c
                    THEN Merged(repo, f) ELSE repo.index[f]]
      IN  [repo EXCEPT !.wt = wt1, !.index = ix1, !.unmerged = c,
                       !.stash = IF GitStashPopOk(repo) THEN Tail(repo.stash) ELSE repo.stash]

\* git checkout --theirs . : refused when the pathspec matches no file of
\* the index, and when an unmerged path has no stage 3
GitTakeTheirsOk(repo) ==
    /\ \E f \in Files : f \in repo.unmerged \/ repo.index[f] # Absent
    /\ \A f \in repo.unmerged : StashTop(repo)[f] # Absent

GitTakeTheirs(repo) ==
    [repo EXCEPT !.wt = [f \in Files |->
        IF f \in repo.unmerged THEN StashTop(repo)[f]
        ELSE IF repo.index[f] # Absent THEN repo.index[f]
        ELSE repo.wt[f]]]

\* git reset
GitReset(repo) == [repo EXCEPT !.index = repo.head, !.unmerged = {}]

\* git add -A
GitAdd(repo) == [repo EXCEPT !.index = repo.wt, !.unmerged = {}]

\* git commit -m: refused when nothing is staged
GitCommitOk(repo) == repo.index # repo.head /\ repo.unmerged = {}

GitCommit(repo) == [repo EXCEPT !.head = repo.index]

\* the branch git push -f --set-upstream origin <name> pushes, and pushes
\* to: the local branch <name>, and for the name HEAD the current branch
PushTarget(repo, name) == IF name = HEAD THEN repo.cur ELSE name

\* git refuses to push HEAD from a clone that is on no branch
GitPushOk(repo, name) == PushTarget(repo, name) # Detached

\* the remote updates a ref when the ref is as the push read it and no
\* other branch is in the way of its name (a/b beside a)
RemoteAccepts(remote, name, seen) ==
    /\ {b \in remote : b.name = name} = seen
    /\ \A b \in remote : b.name # name => ~RefClash(name, b.name)

\* the remote-tracking refs after the push of the branch <name>;
\* origin/HEAD is a symbolic ref to origin/main and follows it
GitPushed(repo, name) ==
    LET moved == IF name = Main THEN {name, HEAD} ELSE {name}
    IN  [repo EXCEPT !.refs = {ref \in repo.refs : ref.name \notin moved}
                              \cup {[name |-> n, tree |-> repo.head] : n \in moved}]

\* a push without -f: a branch that is already on the remote is left as
\* it is
Overwrite_unforced(remote, name, tree) ==
    IF \E b \in remote : b.name = name THEN remote
    ELSE remote \cup {[name |-> name, tree |-> tree]}

\* the remote after the force-push: the branch is overwritten
Overwrite(remote, name, tree) ==
    {b \in remote : b.name # name} \cup {[name |-> name, tree |-> tree]}

(* ------------------------------ inputs -------------------------------- *)
\* GITHUB_REF values: refs/heads/main, a tag, a branch this action made
\* for the default pull request branch, and a branch whose name is a
\* proper prefix of the default pull request branch
RefMain == RefsHeads \o Main

RefTag == <<"r","e","f","s","/","t","a","g","s","/","v","1",".","0">>

SelfBranch == DefaultBranch \o <<"-","d","e","f","5","6","7","8">>

RefSelf == RefsHeads \o SelfBranch

ShortBranch == SubSeq(DefaultBranch, 1, 19)

RefShort == RefsHeads \o ShortBranch

\* a configured PULL_REQUEST_BRANCH, and the GITHUB_REF of a branch of that name
FixBranch == <<"f","i","x">>

RefFix == RefsHeads \o FixBranch

\* commit hashes
ShaA == <<"a","b","c","1","2","3","4","d","e","f">>

ShaB == <<"d","e","f","5","6","7","8","a","b","c">>

\* what get_random_suffix can return
RndA == <<"k","3","x","9","q","0","z">>

RndB == <<"0","0","0","0","0","0","0">>

Dispatch == [name |-> "workflow_dispatch", data |-> [deleted |-> FALSE, ref |-> RefMain]]

\* the push that deleted the branch main
DeletePush == [name |-> "push", data |-> [deleted |-> TRUE, ref |-> RefMain]]

\* json.dumps(github_event, sort_keys=True, indent=2) of a payload
PayloadJson(data) ==
    CASE data.deleted /\ data.ref = RefMain ->
           "{\n  \"deleted\": true,\n  \"ref\": \"refs/heads/main\"\n}"
      [] data.deleted /\ data.ref = RefTag ->
           "{\n  \"deleted\": true,\n  \"ref\": \"refs/tags/v1.0\"\n}"
      [] ~data.deleted /\ data.ref = RefMain ->
           "{\n  \"deleted\": false,\n  \"ref\": \"refs/heads/main\"\n}"
      [] ~data.deleted /\ data.ref = RefTag ->
           "{\n  \"deleted\": false,\n  \"ref\": \"refs/tags/v1.0\"\n}"

AllEvents == [name : {"push", "workflow_dispatch"},
              data : [deleted : BOOLEAN, ref : {RefMain, RefTag}]]

AllTrees == [x : {"base", "a", "b", Absent}, z : {Absent, "a"}]

\* "bug\n,\x0b,\thelp wanted\x1f"
LabelList == <<"b","u","g","\n",",","",",","\t","h","e","l","p"," ","w","a","n","t","e","d","">>

\* " alice,bob "
UserList == <<" ","a","l","i","c","e",",","b","o","b"," ">>

\* the value of the optional PULL_REQUEST_* variables
NoOptions == [labels |-> Unset, assignees |-> Unset, milestone |-> Unset,
              reviewers |-> Unset, team_reviewers |-> Unset]

\* "0" * (n - 1) + "1"
ZerosAndOne(n) == [i \in 1..n |-> IF i = n THEN "1" ELSE "0"]

\* every option set, with the number of a milestone that exists ("1") and
\* of one that does not ("7"); AllOptions has in addition milestone values
\* that int() reads as 1 ("\xa0+\u06f0_1\x0b", with a no-break space, an
\* extended arabic-indic zero and a vertical tab, and "\u0661", the
\* arabic-indic one), one it reads as -1, two it refuses ("1_" and
\* "\x1c1"), and the number 1 written with 4300 digits, which int() reads,
\* and with 4301 digits, which it refuses
FullOptions(m) == [labels |-> LabelList, assignees |-> UserList, milestone |-> m,
                   reviewers |-> UserList, team_reviewers |-> UserList]

AllOptions ==
    {NoOptions, FullOptions(<<"1">>), FullOptions(<<"7">>),
     [FullOptions(<<"1">>) EXCEPT !.team_reviewers = Unset],
     [FullOptions(<<"1">>) EXCEPT !.labels = Unset, !.milestone = Unset],
     [NoOptions EXCEPT !.assignees = UserList],
     [NoOptions EXCEPT !.team_reviewers = UserList],
     [NoOptions EXCEPT !.milestone = <<"1">>, !.reviewers = UserList],
     [NoOptions EXCEPT !.milestone = <<" ","+","۰","_","1","">>,
                       !.reviewers = UserList],
     [NoOptions EXCEPT !.milestone = <<"U+0661">>, !.reviewers = UserList],
     [NoOptions EXCEPT !.milestone = <<"","1">>, !.reviewers = UserList],
     [NoOptions EXCEPT !.milestone = <<"-","1">>, !.reviewers = UserList],
     [NoOptions EXCEPT !.milestone = <<"1","_">>, !.reviewers = UserList],
     [NoOptions EXCEPT !.milestone = ZerosAndOne(4300), !.reviewers = UserList],
     [NoOptions EXCEPT !.milestone = ZerosAndOne(4301), !.reviewers = UserList]}

(* The inputs are explored one axis at a time: a bundle widens some of    *)
(* the inputs of Plain, under which a dispatched run on main with a       *)
(* modified x and every operation succeeding publishes a pull request.    *)
(* remote is the set of branches the remote holds before the runs.        *)
Plain ==
    [events |-> {Dispatch}, debugs |-> {Unset}, skips |-> {Unset}, shas |-> {ShaA},
     abbrevs |-> {7}, trees |-> {[x |-> "a", z |-> Absent]}, refs |-> {RefMain},
     branches |-> {Unset}, suffixes |-> {Unset}, randoms |-> {RndA},
     options |-> {NoOptions}, oks |-> {TRUE}, remote |-> {Main}]

Bundles ==
    [events   |-> [Plain EXCEPT !.events = AllEvents,
                                !.skips = {Unset, <<>>, <<"t","r","u","e">>}],
     debug    |-> [Plain EXCEPT !.events = {Dispatch, DeletePush},
                                !.debugs = {Unset, <<>>, <<"1">>}],
     guard    |-> [Plain EXCEPT !.refs = {RefMain, RefTag, RefSelf, RefFix},
                                !.branches = {Unset, FixBranch, Main},
                                !.suffixes = {Unset, None},
                                !.remote = {Main, FixBranch, SelfBranch}],
     prefix   |-> [Plain EXCEPT !.refs = {RefMain, RefShort},
                                !.remote = {Main, ShortBranch}],
     head     |-> [Plain EXCEPT !.refs = {RefMain, RefTag},
                                !.branches = {HEAD},
                                !.suffixes = {Unset, None}],
     naming   |-> [Plain EXCEPT !.suffixes = {Unset, ShortCommitHash, Timestamp, Random,
                                              <<"u","n","s","e","t">>},
                                !.shas = {ShaA, ShaB}, !.abbrevs = {7, 8},
                                !.randoms = {RndA, RndB}],
     trees    |-> [Plain EXCEPT !.trees = AllTrees, !.suffixes = {Unset, None}],
     faults   |-> [Plain EXCEPT !.trees = {BaseTree, [x |-> "a", z |-> Absent],
                                           [x |-> "b", z |-> "a"], [x |-> Absent, z |-> Absent]},
                                !.suffixes = {Unset, None}, !.oks = BOOLEAN],
     options  |-> [Plain EXCEPT !.options = AllOptions, !.oks = BOOLEAN]]

(* ------------------------------ state --------------------------------- *)
VARIABLES
    pc,                 \* where each run is in the script
    exit_code,          \* the exit status of a run that is done
    event_name,         \* GITHUB_EVENT_NAME
    event_data,         \* the event payload
    skip_ignore_event,  \* bool(SKIP_IGNORE)
    debug_event,        \* bool(DEBUG_EVENT)
    branch,             \* the pull request branch, resolved at line 189-195
    base,               \* the target base branch
    branch_suffix,      \* BRANCH_SUFFIX
    remote_exists,      \* the result of the remote-branch check
    options,            \* the optional PULL_REQUEST_* values of a run
    pull_number,        \* the number of the pull request a run created, or 0
    repo,               \* the clone of each run
    calls,              \* the collaborator operations each run has invoked
    output,             \* the lines each run has printed
    pull_request_branch, \* PULL_REQUEST_BRANCH
    origin,             \* the branches of the remote: records [name, tree]
    pulls,              \* the pull requests of the hosting service, by number
    now,                \* the latest wall-clock time a run has read, in seconds
    inputs,             \* the name of the input bundle the runs draw from
    advertised          \* the remote's branch as the git push of a run read it

vars == <<pc, exit_code, event_name, event_data, skip_ignore_event, debug_event, branch, base,
          branch_suffix, remote_exists, options, pull_number, repo, calls,
          output, pull_request_branch, origin, pulls, now, inputs, advertised>>

\* the variables of the classification, of the naming and of process_event
eventVars == <<event_name, event_data, skip_ignore_event, debug_event>>

nameVars == <<pull_request_branch, branch, base, branch_suffix, remote_exists>>

hostVars == <<options, pull_number, pulls>>

NoEvent == [deleted |-> FALSE, ref |-> <<>>]

\* the clone variable before line 173 assigns it
NoRepo == Clone(<<>>, 0, BaseTree, {[name |-> Main, tree |-> BaseTree]}, <<>>)

Init ==
    /\ pc = [r \in Runs |-> "idle"]
    /\ exit_code = [r \in Runs |-> 0]
    /\ inputs \in DOMAIN Bundles
    /\ event_name = [r \in Runs |-> Unassigned]
    /\ event_data = [r \in Runs |-> NoEvent]
    /\ skip_ignore_event = [r \in Runs |-> FALSE]
    /\ debug_event = [r \in Runs |-> FALSE]
    /\ branch = [r \in Runs |-> <<>>]
    /\ base = [r \in Runs |-> <<>>]
    /\ branch_suffix = [r \in Runs |-> Unset]
    /\ remote_exists = [r \in Runs |-> FALSE]
    /\ options = [r \in Runs |-> NoOptions]
    /\ pull_number = [r \in Runs |-> 0]
    /\ repo = [r \in Runs |-> NoRepo]
    /\ calls = [r \in Runs |-> <<>>]
    /\ output = [r \in Runs |-> <<>>]
    /\ pull_request_branch = [r \in Runs |-> Unset]
    /\ origin = {[name |-> n, tree |-> BaseTree] : n \in Bundles[inputs].remote}
    /\ pulls = <<>>
    /\ now = 0
    /\ advertised = [r \in Runs |-> {}]

\* the input bundle in use
D == Bundles[inputs]

(* --------------------------- bookkeeping ------------------------------ *)
\* one invocation of a collaborator operation and whether it succeeded
Call(op, arg, ok) == [op |-> op, arg |-> arg, ok |-> ok]

Log(r, op, arg, ok) == calls' = [calls EXCEPT ![r] = Append(@, Call(op, arg, ok))]

\* print(...)
Out(r, lines) == output' = [output EXCEPT ![r] = @ \o lines]

\* the run ends: sys.exit() or the end of the script (0), an uncaught
\* exception (1)
Exit(r, code) ==
    /\ pc' = [pc EXCEPT ![r] = "done"]
    /\ exit_code' = [exit_code EXCEPT ![r] = code]

Goto(r, label) ==
    /\ pc' = [pc EXCEPT ![r] = label]
    /\ UNCHANGED exit_code

\* every operation wrapped in try/except: a failure is swallowed and the
\* run goes on
Then_swallow(r, ok, label) == Goto(r, label)

\* every failure caught and turned into sys.exit(): the run ends there
\* with status 0
Then_exit0(r, ok, label) == IF ok THEN Goto(r, label) ELSE Exit(r, 0)

\* a step that continues at label when the operation succeeded and raises
\* otherwise
Then(r, ok, label) == IF ok THEN Goto(r, label) ELSE Exit(r, 1)

\* bool(os.environ.get(NAME))
PyBool(value) == value # Unset /\ value # <<>>

(* --------------------- the main flow, lines 166-216 ------------------- *)

\* the condition of line 171 with the negation lost: ignorable events are
\* the ones processed
ShouldProcess_inverted(skip, name, data) == skip \/ ignore_event(name, data)

\* the condition of line 171 without the override
ShouldProcess_noskip(skip, name, data) == ~ignore_event(name, data)

\* the condition of line 171
ShouldProcess(skip, name, data) == skip \/ ~ignore_event(name, data)

\* the guard of line 181 written as an equality: a suffixed branch of the
\* action is not recognised
CreatedByAction_equal(b, br) == b = br

\* the guard of line 181
CreatedByAction(b, br) == StartsWith(b, br)

\* the branch of lines 186-195
ResolveBranch(br, suffix, rp, t, rnd) ==
    IF suffix = ShortCommitHash THEN Suffixed(br, get_head_short_sha1(rp))
    ELSE IF suffix = Timestamp THEN Suffixed(br, IntToStr(t))
    ELSE IF suffix = Random THEN Suffixed(br, rnd)
    ELSE br

\* the condition of line 202 testing for the timestamp strategy instead of
\* short-commit-hash
AlreadyPublished_timestamp(suffix, exists) == suffix = Timestamp /\ exists

\* the exit of lines 202-204 removed
AlreadyPublished_never(suffix, exists) == FALSE

\* the condition of line 202
AlreadyPublished(suffix, exists) == suffix = ShortCommitHash /\ exists

\* the condition of line 212 with the count of untracked files compared
\* by >=: every tree counts as changed
HasChanges_always(rp) == IsDirty(rp) \/ Cardinality(UntrackedFiles(rp)) >= 0

\* the condition of line 212
HasChanges(rp) == IsDirty(rp) \/ Cardinality(UntrackedFiles(rp)) > 0

\* what get_github_event prints, lines 16-18
debug_lines(debug, name, data) == IF debug THEN <<name, PayloadJson(data)>> ELSE <<>>

\* lines 167-171: the event is read, printed when DEBUG_EVENT is set, and
\* classified
Start(r) ==
    /\ pc[r] = "idle"
    /\ \E e \in D.events, s \in D.skips, dbg \in D.debugs :
         /\ event_name' = [event_name EXCEPT ![r] = e.name]
         /\ event_data' = [event_data EXCEPT ![r] = e.data]
         /\ skip_ignore_event' = [skip_ignore_event EXCEPT ![r] = PyBool(s)]
         /\ debug_event' = [debug_event EXCEPT ![r] = PyBool(dbg)]
         /\ Out(r, debug_lines(PyBool(dbg), e.name, e.data)
                     \o (IF PyBool(s) THEN <<>> ELSE ignore_message(e.name, e.data)))
         /\ IF ShouldProcess(PyBool(s), e.name, e.data)
            THEN Goto(r, "repo")
            ELSE Exit(r, 0)
    /\ UNCHANGED <<nameVars, hostVars, repo, calls, origin, now, inputs, advertised>>

\* lines 173-183: the clone is opened, the branch and the base are read
OpenRepo(r) ==
    /\ pc[r] = "repo"
    /\ \E sha \in D.shas, n \in D.abbrevs, wt \in D.trees, ref \in D.refs, b \in D.branches :
         LET br == Getenv(b, DefaultBranch)
             bs == SliceFrom(ref, 11)
         IN  /\ repo' = [repo EXCEPT ![r] = Clone(sha, n, wt, origin, ref)]
             /\ pull_request_branch' = [pull_request_branch EXCEPT ![r] = b]
             /\ branch' = [branch EXCEPT ![r] = br]
             /\ base' = [base EXCEPT ![r] = bs]
             /\ IF CreatedByAction(bs, br)
                THEN Exit(r, 0) /\ Out(r, <<"Branch was created by this action. Skipping.">>)
                ELSE Goto(r, "name") /\ UNCHANGED output
    /\ UNCHANGED <<eventVars, branch_suffix, remote_exists, hostVars, calls, origin, now, inputs, advertised>>

\* lines 186-204: the branch is suffixed and looked up among the remote refs
NameBranch(r) ==
    /\ pc[r] = "name"
    /\ \E sfx \in D.suffixes, rnd \in D.randoms, t \in now..MaxTime :
         LET suffix == Getenv(sfx, ShortCommitHash)
             br == ResolveBranch(branch[r], suffix, repo[r], t, rnd)
             exists == remote_branch_exists(repo[r], br)
         IN  /\ branch_suffix' = [branch_suffix EXCEPT ![r] = suffix]
             /\ branch' = [branch EXCEPT ![r] = br]
             /\ remote_exists' = [remote_exists EXCEPT ![r] = exists]
             /\ now' = IF suffix = Timestamp THEN t ELSE now
             /\ IF AlreadyPublished(suffix, exists)
                THEN Exit(r, 0) /\ Out(r, <<"Pull request branch already exists for this commit. Skipping.">>)
                ELSE Goto(r, "config") /\ UNCHANGED output
    /\ UNCHANGED <<eventVars, pull_request_branch, base, hostVars, repo, calls, origin, inputs, advertised>>

\* line 207, set_git_config
SetGitConfig(r) ==
    /\ pc[r] = "config"
    /\ \E ok \in D.oks :
         /\ Log(r, "setIdentity", <<>>, ok)
         /\ repo' = [repo EXCEPT ![r].ident = IF ok THEN "OpenOSRS" ELSE @]
         /\ Then(r, ok, "checkout")
    /\ UNCHANGED <<output, eventVars, nameVars, hostVars, origin, now, inputs, advertised>>

\* the stash of line 76 taken before the test of remote_exists: the
\* new-branch path stashes too
Stash_unconditional(r) ==
    /\ pc[r] = "checkout"
    /\ \E ok \in D.oks :
         /\ Log(r, "stash", <<>>, ok)
         /\ repo' = [repo EXCEPT ![r] = IF ok THEN GitStash(@) ELSE @]
         /\ Then(r, ok, "switch")
    /\ UNCHANGED <<output, eventVars, nameVars, hostVars, origin, now, inputs, advertised>>

\* line 76 of checkout_branch
Stash(r) ==
    /\ pc[r] = "checkout"
    /\ remote_exists[r]
    /\ \E ok \in D.oks :
         /\ Log(r, "stash", <<>>, ok)
         /\ repo' = [repo EXCEPT ![r] = IF ok THEN GitStash(@) ELSE @]
         /\ Then(r, ok, "switch")
    /\ UNCHANGED <<output, eventVars, nameVars, hostVars, origin, now, inputs, advertised>>

\* line 77
Checkout(r) ==
    /\ pc[r] = "switch"
    /\ \E ok \in D.oks :
         /\ Log(r, "checkout", branch[r], ok)
         /\ repo' = [repo EXCEPT ![r] = IF ok THEN GitCheckout(@, branch[r]) ELSE @]
         /\ Then(r, ok, "pop")
    /\ UNCHANGED <<output, eventVars, nameVars, hostVars, origin, now, inputs, advertised>>

\* lines 78-80: a pop that raises is caught
StashPop(r) ==
    /\ pc[r] = "pop"
    /\ \E up \in D.oks :
         LET ok == up /\ GitStashPopOk(repo[r])
         IN  /\ Log(r, "stashPop", <<>>, ok)
             /\ repo' = [repo EXCEPT ![r] = IF up THEN GitStashPop(@) ELSE @]
             /\ Goto(r, IF ok THEN "dirty" ELSE "theirs")
    /\ UNCHANGED <<output, eventVars, nameVars, hostVars, origin, now, inputs, advertised>>

\* line 81, inside the except block
TakeTheirs(r) ==
    /\ pc[r] = "theirs"
    /\ \E up \in D.oks :
         LET ok == up /\ GitTakeTheirsOk(repo[r])
         IN  /\ Log(r, "takeTheirs", <<>>, ok)
             /\ repo' = [repo EXCEPT ![r] = IF ok THEN GitTakeTheirs(@) ELSE @]
             /\ Then(r, ok, "reset")
    /\ UNCHANGED <<output, eventVars, nameVars, hostVars, origin, now, inputs, advertised>>

\* line 82, inside the except block
ResetIndex(r) ==
    /\ pc[r] = "reset"
    /\ \E ok \in D.oks :
         /\ Log(r, "resetIndex", <<>>, ok)
         /\ repo' = [repo EXCEPT ![r] = IF ok THEN GitReset(@) ELSE @]
         /\ Then(r, ok, "dirty")
    /\ UNCHANGED <<output, eventVars, nameVars, hostVars, origin, now, inputs, advertised>>

\* line 84
CheckoutNew(r) ==
    /\ pc[r] = "checkout"
    /\ ~remote_exists[r]
    /\ \E up \in D.oks :
         LET ok == up /\ GitCheckoutNewOk(repo[r], branch[r])
         IN  /\ Log(r, "checkoutNew", branch[r], ok)
             /\ repo' = [repo EXCEPT ![r] = IF ok THEN GitCheckoutNew(@, branch[r]) ELSE @]
             /\ Then(r, ok, "dirty")
    /\ UNCHANGED <<output, eventVars, nameVars, hostVars, origin, now, inputs, advertised>>

\* lines 211-216
CheckDirty(r) ==
    /\ pc[r] = "dirty"
    /\ IF HasChanges(repo[r])
       THEN Goto(r, "process") /\ Out(r, <<"Repository has modified or untracked files.">>)
       ELSE Exit(r, 0) /\ Out(r, <<"Repository has no modified or untracked files. Skipping.">>)
    /\ UNCHANGED <<eventVars, nameVars, hostVars, repo, calls, origin, now, inputs, advertised>>

(* -------------------- process_event, lines 100-163 -------------------- *)
\* the characters int() removes around the number: blank, tab, newline,
\* carriage return, form feed, vertical tab and every white-space
\* character outside ASCII; the separators 0x1c-0x1f are not among them
IntWhitespace == {" ", "\t", "\n", "\r", "\f", ""} \cup UnicodeWhitespace

RECURSIVE IntLStrip(_)
IntLStrip(s) == IF s # <<>> /\ Head(s) \in IntWhitespace THEN IntLStrip(Tail(s)) ELSE s

RECURSIVE IntRStrip(_)
IntRStrip(s) ==
    IF s # <<>> /\ s[Len(s)] \in IntWhitespace
    THEN IntRStrip(SubSeq(s, 1, Len(s) - 1)) ELSE s

IntStrip(s) == IntRStrip(IntLStrip(s))

\* the decimal digits int() accepts: every character of Unicode category
\* Nd.  They come in runs of ten consecutive code points, one run per
\* script, holding the digits 0 to 9 in order; a row is one run.  The
\* digits that cannot be written here are written by code point.
DecimalDigits ==
    <<
      <<"0", "1", "2", "3", "4", "5", "6", "7", "8", "9">>,
      <<"U+0660", "U+0661", "U+0662", "U+0663", "U+0664", "U+0665", "U+0666", "U+0667", "U+0668", "U+0669">>,
      <<"۰", "۱", "۲", "۳", "۴", "۵", "۶", "۷", "۸", "۹">>,
      <<"߀", "߁", "߂", "߃", "߄", "߅", "߆", "߇", "߈", "߉">>,
      <<"U+0966", "U+0967", "U+0968", "U+0969", "U+096A", "U+096B", "U+096C", "U+096D", "U+096E", "U+096F">>,
      <<"০", "১", "২", "৩", "৪", "৫", "৬", "৭", "৮", "৯">>,
      <<"U+0A66", "U+0A67", "U+0A68", "U+0A69", "U+0A6A", "U+0A6B", "U+0A6C", "U+0A6D", "U+0A6E", "U+0A6F">>,
      <<"૦", "૧", "૨", "૩", "૪", "૫", "૬", "૭", "૮", "૯">>,
      <<"U+0B66", "U+0B67", "U+0B68", "U+0B69", "U+0B6A", "U+0B6B", "U+0B6C", "U+0B6D", "U+0B6E", "U+0B6F">>,
      <<"௦", "௧", "௨", "௩", "௪", "௫", "௬", "௭", "௮", "௯">>,
      <<"U+0C66", "U+0C67", "U+0C68", "U+0C69", "U+0C6A", "U+0C6B", "U+0C6C", "U+0C6D", "U+0C6E", "U+0C6F">>,
      <<"೦", "೧", "೨", "೩", "೪", "೫", "೬", "೭", "೮", "೯">>,
      <<"U+0D66", "U+0D67", "U+0D68", "U+0D69", "U+0D6A", "U+0D6B", "U+0D6C", "U+0D6D", "U+0D6E", "U+0D6F">>,
      <<"෦", "෧", "෨", "෩", "෪", "෫", "෬", "෭", "෮", "෯">>,
      <<"U+0E50", "U+0E51", "U+0E52", "U+0E53", "U+0E54", "U+0E55", "U+0E56", "U+0E57", "U+0E58", "U+0E59">>,
      <<"໐", "໑", "໒", "໓", "໔", "໕", "໖", "໗", "໘", "໙">>,
      <<"U+0F20", "U+0F21", "U+0F22", "U+0F23", "U+0F24", "U+0F25", "U+0F26", "U+0F27", "U+0F28", "U+0F29">>,
      <<"U+1040", "U+1041", "U+1042", "U+1043", "U+1044", "U+1045", "U+1046", "U+1047", "U+1048", "U+1049">>,
      <<"႐", "႑", "႒", "႓", "႔", "႕", "႖", "႗", "႘", "႙">>,
      <<"០", "១", "២", "៣", "៤", "៥", "៦", "៧", "៨", "៩">>,
      <<"U+1810", "U+1811", "U+1812", "U+1813", "U+1814", "U+1815", "U+1816", "U+1817", "U+1818", "U+1819">>,
      <<"U+1946", "U+1947", "U+1948", "U+1949", "U+194A", "U+194B", "U+194C", "U+194D", "U+194E", "U+194F">>,
      <<"᧐", "᧑", "᧒", "᧓", "᧔", "᧕", "᧖", "᧗", "᧘", "᧙">>,
      <<"᪀", "᪁", "᪂", "᪃", "᪄", "᪅", "᪆", "᪇", "᪈", "᪉">>,
      <<"᪐", "᪑", "᪒", "᪓", "᪔", "᪕", "᪖", "᪗", "᪘", "᪙">>,
      <<"U+1B50", "U+1B51", "U+1B52", "U+1B53", "U+1B54", "U+1B55", "U+1B56", "U+1B57", "U+1B58", "U+1B59">>,
      <<"᮰", "᮱", "᮲", "᮳", "᮴", "᮵", "᮶", "᮷", "᮸", "᮹">>,
      <<"U+1C40", "U+1C41", "U+1C42", "U+1C43", "U+1C44", "U+1C45", "U+1C46", "U+1C47", "U+1C48", "U+1C49">>,
      <<"U+1C50", "U+1C51", "U+1C52", "U+1C53", "U+1C54", "U+1C55", "U+1C56", "U+1C57", "U+1C58", "U+1C59">>,
      <<"U+A620", "U+A621", "U+A622", "U+A623", "U+A624", "U+A625", "U+A626", "U+A627", "U+A628", "U+A629">>,
      <<"꣐", "꣑", "꣒", "꣓", "꣔", "꣕", "꣖", "꣗", "꣘", "꣙">>,
      <<"U+A900", "U+A901", "U+A902", "U+A903", "U+A904", "U+A905", "U+A906", "U+A907", "U+A908", "U+A909">>,
      <<"꧐", "꧑", "꧒", "꧓", "꧔", "꧕", "꧖", "꧗", "꧘", "꧙">>,
      <<"꧰", "꧱", "꧲", "꧳", "꧴", "꧵", "꧶", "꧷", "꧸", "꧹">>,
      <<"U+AA50", "U+AA51", "U+AA52", "U+AA53", "U+AA54", "U+AA55", "U+AA56", "U+AA57", "U+AA58", "U+AA59">>,
      <<"꯰", "꯱", "꯲", "꯳", "꯴", "꯵", "꯶", "꯷", "꯸", "꯹">>,
      <<"U+FF10", "U+FF11", "U+FF12", "U+FF13", "U+FF14", "U+FF15", "U+FF16", "U+FF17", "U+FF18", "U+FF19">>,
      <<"U+104A0", "U+104A1", "U+104A2", "U+104A3", "U+104A4", "U+104A5", "U+104A6", "U+104A7", "U+104A8", "U+104A9">>,
      <<"U+10D30", "U+10D31", "U+10D32", "U+10D33", "U+10D34", "U+10D35", "U+10D36", "U+10D37", "U+10D38", "U+10D39">>,
      <<"U+11066", "U+11067", "U+11068", "U+11069", "U+1106A", "U+1106B", "U+1106C", "U+1106D", "U+1106E", "U+1106F">>,
      <<"U+110F0", "U+110F1", "U+110F2", "U+110F3", "U+110F4", "U+110F5", "U+110F6", "U+110F7", "U+110F8", "U+110F9">>,
      <<"U+11136", "U+11137", "U+11138", "U+11139", "U+1113A", "U+1113B", "U+1113C", "U+1113D", "U+1113E", "U+1113F">>,
      <<"U+111D0", "U+111D1", "U+111D2", "U+111D3", "U+111D4", "U+111D5", "U+111D6", "U+111D7", "U+111D8", "U+111D9">>,
      <<"U+112F0", "U+112F1", "U+112F2", "U+112F3", "U+112F4", "U+112F5", "U+112F6", "U+112F7", "U+112F8", "U+112F9">>,
      <<"U+11450", "U+11451", "U+11452", "U+11453", "U+11454", "U+11455", "U+11456", "U+11457", "U+11458", "U+11459">>,
      <<"U+114D0", "U+114D1", "U+114D2", "U+114D3", "U+114D4", "U+114D5", "U+114D6", "U+114D7", "U+114D8", "U+114D9">>,
      <<"U+11650", "U+11651", "U+11652", "U+11653", "U+11654", "U+11655", "U+11656", "U+11657", "U+11658", "U+11659">>,
      <<"U+116C0", "U+116C1", "U+116C2", "U+116C3", "U+116C4", "U+116C5", "U+116C6", "U+116C7", "U+116C8", "U+116C9">>,
      <<"U+11730", "U+11731", "U+11732", "U+11733", "U+11734", "U+11735", "U+11736", "U+11737", "U+11738", "U+11739">>,
      <<"U+118E0", "U+118E1", "U+118E2", "U+118E3", "U+118E4", "U+118E5", "U+118E6", "U+118E7", "U+118E8", "U+118E9">>,
      <<"U+11950", "U+11951", "U+11952", "U+11953", "U+11954", "U+11955", "U+11956", "U+11957", "U+11958", "U+11959">>,
      <<"U+11C50", "U+11C51", "U+11C52", "U+11C53", "U+11C54", "U+11C55", "U+11C56", "U+11C57", "U+11C58", "U+11C59">>,
      <<"U+11D50", "U+11D51", "U+11D52", "U+11D53", "U+11D54", "U+11D55", "U+11D56", "U+11D57", "U+11D58", "U+11D59">>,
      <<"U+11DA0", "U+11DA1", "U+11DA2", "U+11DA3", "U+11DA4", "U+11DA5", "U+11DA6", "U+11DA7", "U+11DA8", "U+11DA9">>,
      <<"U+16A60", "U+16A61", "U+16A62", "U+16A63", "U+16A64", "U+16A65", "U+16A66", "U+16A67", "U+16A68", "U+16A69">>,
      <<"U+16AC0", "U+16AC1", "U+16AC2", "U+16AC3", "U+16AC4", "U+16AC5", "U+16AC6", "U+16AC7", "U+16AC8", "U+16AC9">>,
      <<"U+16B50", "U+16B51", "U+16B52", "U+16B53", "U+16B54", "U+16B55", "U+16B56", "U+16B57", "U+16B58", "U+16B59">>,
      <<"U+1D7CE", "U+1D7CF", "U+1D7D0", "U+1D7D1", "U+1D7D2", "U+1D7D3", "U+1D7D4", "U+1D7D5", "U+1D7D6", "U+1D7D7">>,
      <<"U+1D7D8", "U+1D7D9", "U+1D7DA", "U+1D7DB", "U+1D7DC", "U+1D7DD", "U+1D7DE", "U+1D7DF", "U+1D7E0", "U+1D7E1">>,
      <<"U+1D7E2", "U+1D7E3", "U+1D7E4", "U+1D7E5", "U+1D7E6", "U+1D7E7", "U+1D7E8", "U+1D7E9", "U+1D7EA", "U+1D7EB">>,
      <<"U+1D7EC", "U+1D7ED", "U+1D7EE", "U+1D7EF", "U+1D7F0", "U+1D7F1", "U+1D7F2", "U+1D7F3", "U+1D7F4", "U+1D7F5">>,
      <<"U+1D7F6", "U+1D7F7", "U+1D7F8", "U+1D7F9", "U+1D7FA", "U+1D7FB", "U+1D7FC", "U+1D7FD", "U+1D7FE", "U+1D7FF">>,
      <<"U+1E140", "U+1E141", "U+1E142", "U+1E143", "U+1E144", "U+1E145", "U+1E146", "U+1E147", "U+1E148", "U+1E149">>,
      <<"U+1E2F0", "U+1E2F1", "U+1E2F2", "U+1E2F3", "U+1E2F4", "U+1E2F5", "U+1E2F6", "U+1E2F7", "U+1E2F8", "U+1E2F9">>,
      <<"U+1E950", "U+1E951", "U+1E952", "U+1E953", "U+1E954", "U+1E955", "U+1E956", "U+1E957", "U+1E958", "U+1E959">>,
      <<"U+1FBF0", "U+1FBF1", "U+1FBF2", "U+1FBF3", "U+1FBF4", "U+1FBF5", "U+1FBF6", "U+1FBF7", "U+1FBF8", "U+1FBF9">>
    >>

Digits == {DecimalDigits[k][d] : k \in DOMAIN DecimalDigits, d \in 1..10}

IsDigit(c) == c \in Digits

\* the value of a decimal digit: its place in its row
DigitValue(c) ==
    CHOOSE v \in 0..9 : \E k \in DOMAIN DecimalDigits : DecimalDigits[k][v + 1] = c

RECURSIVE Pow10(_)
Pow10(n) == IF n = 0 THEN 1 ELSE 10 * Pow10(n - 1)

\* the value of a string of digits: that of its first half, moved left by
\* the length of the second half, plus that of the second half
RECURSIVE StrToInt(_)
StrToInt(str) ==
    IF str = <<>> THEN 0
    ELSE IF Len(str) = 1 THEN DigitValue(str[1])
    ELSE LET h  == Len(str) \div 2
             hi == StrToInt(SubSeq(str, 1, h))
             lo == SubSeq(str, h + 1, Len(str))
         IN  IF hi = 0 THEN StrToInt(lo) ELSE hi * Pow10(Len(lo)) + StrToInt(lo)

\* what int(str) reads after the surrounding whitespace: the sign, if any,
\* and the rest
IntSign(str) == IF IntStrip(str) # <<>> /\ Head(IntStrip(str)) = "-" THEN 0 - 1 ELSE 1

IntBody(str) ==
    LET t == IntStrip(str)
    IN  IF t # <<>> /\ Head(t) \in {"+", "-"} THEN Tail(t) ELSE t

\* sys.get_int_max_str_digits(): the most digits int() converts
MaxStrDigits == 4300

\* int(str) returns: the body is decimal digits, with single underscores
\* allowed between two digits, and has no more than MaxStrDigits digits;
\* anything else raises ValueError
IsInt(str) ==
    LET u == IntBody(str)
    IN  /\ u # <<>>
        /\ Len(SelectSeq(u, IsDigit)) <= MaxStrDigits
        /\ \A i \in 1..Len(u) : u[i] \in Digits \cup {"_"}
        /\ \A i \in 1..Len(u) : u[i] = "_" => /\ 1 < i /\ i < Len(u)
                                                /\ u[i - 1] \in Digits /\ u[i + 1] \in Digits

\* int(str)
PyInt(str) == IntSign(str) * StrToInt(SelectSeq(IntBody(str), IsDigit))

\* the milestones of the hosted repository, by number
Milestones == {1}

\* the hosting service refuses a second open pull request for a head and base
PullExists(head, bs) == \E i \in 1..Len(pulls) : pulls[i].head = head /\ pulls[i].base = bs

\* create_pull given the unsuffixed default name as head
NewPull_unsuffixed(head, bs) ==
    [head |-> DefaultBranch, base |-> bs, labels |-> <<>>, assignees |-> <<>>,
     milestone |-> 0, reviewers |-> <<>>, team_reviewers |-> <<>>]

NewPull(head, bs) ==
    [head |-> head, base |-> bs, labels |-> <<>>, assignees |-> <<>>, milestone |-> 0,
     reviewers |-> <<>>, team_reviewers |-> <<>>]

\* the condition of line 130 lost: a run that updated an existing branch
\* goes on to create a pull request
UpdateOnly_never(exists) == FALSE

\* the condition of line 130 negated: the run that created the branch
\* stops after the push, the run that found it goes on
UpdateOnly_inverted(exists) == ~exists

\* the condition of line 130
UpdateOnly(exists) == exists

\* lines 102-122: the options are read, set_git_remote_url
SetRemoteUrl(r) ==
    /\ pc[r] = "process"
    /\ \E o \in D.options, ok \in D.oks :
         /\ options' = [options EXCEPT ![r] = o]
         /\ Log(r, "setRemoteUrl", <<>>, ok)
         /\ repo' = [repo EXCEPT ![r].url = IF ok THEN "x-access-token" ELSE @]
         /\ Then(r, ok, "add")
    /\ UNCHANGED <<output, eventVars, nameVars, pull_number, pulls, origin, now, inputs, advertised>>

\* line 125, and line 88 of push_changes
Add(r) ==
    /\ pc[r] = "add"
    /\ \E ok \in D.oks :
         /\ Out(r, <<"Pushing changes.">>)
         /\ Log(r, "add", <<>>, ok)
         /\ repo' = [repo EXCEPT ![r] = IF ok THEN GitAdd(@) ELSE @]
         /\ Then(r, ok, "commit")
    /\ UNCHANGED <<eventVars, nameVars, hostVars, origin, now, inputs, advertised>>

\* line 89
Commit(r) ==
    /\ pc[r] = "commit"
    /\ \E up \in D.oks :
         LET ok == up /\ GitCommitOk(repo[r])
         IN  /\ Log(r, "commitAll", <<>>, ok)
             /\ repo' = [repo EXCEPT ![r] = IF ok THEN GitCommit(@) ELSE @]
             /\ Then(r, ok, "push")
    /\ UNCHANGED <<output, eventVars, nameVars, hostVars, origin, now, inputs, advertised>>

\* what git push prints when it has set the upstream, line 127
PushResult == "branch set up to track."

\* line 90: git push starts; it reads the refs the remote advertises, or
\* fails at once when there is no branch to push
Push(r) ==
    /\ pc[r] = "push"
    /\ IF GitPushOk(repo[r], branch[r])
       THEN /\ advertised' = [advertised EXCEPT ![r] =
                   {b \in origin : b.name = PushTarget(repo[r], branch[r])}]
            /\ Goto(r, "receive")
            /\ UNCHANGED calls
       ELSE /\ Log(r, "forcePush", branch[r], FALSE)
            /\ Exit(r, 1)
            /\ UNCHANGED advertised
    /\ UNCHANGED <<output, eventVars, nameVars, hostVars, repo, origin, now, inputs>>

\* line 90, the rest: the remote updates the branch or rejects the push;
\* lines 127-132: the answer is printed, and a run that only updated an
\* existing branch ends
PushReceive(r) ==
    /\ pc[r] = "receive"
    /\ \E up \in D.oks :
         LET name == PushTarget(repo[r], branch[r])
             ok == up /\ RemoteAccepts(origin, name, advertised[r])
         IN  /\ Log(r, "forcePush", branch[r], ok)
             /\ repo' = [repo EXCEPT ![r] = IF ok THEN GitPushed(@, name) ELSE @]
             /\ origin' = IF ok THEN Overwrite(origin, name, repo[r].head) ELSE origin
             /\ IF ~ok THEN Exit(r, 1) /\ UNCHANGED output
                ELSE IF UpdateOnly(remote_exists[r])
                     THEN Exit(r, 0) /\ Out(r, <<PushResult, "Updated pull request branch.">>)
                ELSE Goto(r, "create") /\ Out(r, <<PushResult>>)
    /\ UNCHANGED <<eventVars, nameVars, hostVars, now, inputs, advertised>>

\* lines 136-143: create_pull
CreatePull(r) ==
    /\ pc[r] = "create"
    /\ \E up \in D.oks :
         LET ok == up /\ ~PullExists(branch[r], base[r])
         IN  /\ Log(r, "createPullRequest", branch[r], ok)
             /\ pulls' = IF ok THEN Append(pulls, NewPull(branch[r], base[r])) ELSE pulls
             /\ pull_number' = [pull_number EXCEPT ![r] = IF ok THEN Len(pulls) + 1 ELSE @]
             /\ Out(r, IF ok THEN <<"Creating a request to pull.", "Created pull request.">>
                        ELSE <<"Creating a request to pull.">>)
             /\ Then(r, ok, "labels")
    /\ UNCHANGED <<eventVars, nameVars, options, repo, origin, now, inputs, advertised>>

\* lines 146-148
Labels(r) ==
    /\ pc[r] = "labels"
    /\ IF options[r].labels # Unset
       THEN \E ok \in D.oks :
              /\ Out(r, <<"Applying labels">>)
              /\ Log(r, "setLabels", <<>>, ok)
              /\ pulls' = IF ok THEN [pulls EXCEPT ![pull_number[r]].labels =
                                         cs_string_to_list(options[r].labels)]
                          ELSE pulls
              /\ Then(r, ok, "assignees")
       ELSE Goto(r, "assignees") /\ UNCHANGED <<calls, pulls, output>>
    /\ UNCHANGED <<eventVars, nameVars, options, pull_number, repo, origin, now, inputs, advertised>>

\* lines 149-151
Assignees(r) ==
    /\ pc[r] = "assignees"
    /\ IF options[r].assignees # Unset
       THEN \E ok \in D.oks :
              /\ Out(r, <<"Applying assignees">>)
              /\ Log(r, "setAssignees", <<>>, ok)
              /\ pulls' = IF ok THEN [pulls EXCEPT ![pull_number[r]].assignees =
                                         cs_string_to_list(options[r].assignees)]
                          ELSE pulls
              /\ Then(r, ok, "milestone")
       ELSE Goto(r, "milestone") /\ UNCHANGED <<calls, pulls, output>>
    /\ UNCHANGED <<eventVars, nameVars, options, pull_number, repo, origin, now, inputs, advertised>>

\* lines 152-155: int() raises for a value that is no number, before the
\* service is called; get_milestone raises for a number that is not the
\* number of a milestone
Milestone(r) ==
    /\ pc[r] = "milestone"
    /\ IF options[r].milestone = Unset
       THEN Goto(r, "reviewers") /\ UNCHANGED <<calls, pulls, output>>
       ELSE IF ~IsInt(options[r].milestone)
       THEN /\ Out(r, <<"Applying milestone">>)
            /\ Exit(r, 1)
            /\ UNCHANGED <<calls, pulls>>
       ELSE \E up \in D.oks :
              LET ok == up /\ PyInt(options[r].milestone) \in Milestones
              IN  /\ Out(r, <<"Applying milestone">>)
                  /\ Log(r, "setMilestone", <<>>, ok)
                  /\ pulls' = IF ok THEN [pulls EXCEPT ![pull_number[r]].milestone =
                                             PyInt(options[r].milestone)]
                              ELSE pulls
                  /\ Then(r, ok, "reviewers")
    /\ UNCHANGED <<eventVars, nameVars, options, pull_number, repo, origin, now, inputs, advertised>>

\* lines 158-160
Reviewers(r) ==
    /\ pc[r] = "reviewers"
    /\ IF options[r].reviewers # Unset
       THEN \E ok \in D.oks :
              /\ Out(r, <<"Requesting reviewers">>)
              /\ Log(r, "requestReviewers", <<>>, ok)
              /\ pulls' = IF ok THEN [pulls EXCEPT ![pull_number[r]].reviewers =
                                         cs_string_to_list(options[r].reviewers)]
                          ELSE pulls
              /\ Then(r, ok, "team")
       ELSE Goto(r, "team") /\ UNCHANGED <<calls, pulls, output>>
    /\ UNCHANGED <<eventVars, nameVars, options, pull_number, repo, origin, now, inputs, advertised>>

\* lines 161-163, and the end of the script
TeamReviewers(r) ==
    /\ pc[r] = "team"
    /\ IF options[r].team_reviewers # Unset
       THEN \E ok \in D.oks :
              /\ Out(r, <<"Requesting team reviewers">>)
              /\ Log(r, "requestTeamReviewers", <<>>, ok)
              /\ pulls' = IF ok THEN [pulls EXCEPT ![pull_number[r]].team_reviewers =
                                         cs_string_to_list(options[r].team_reviewers)]
                          ELSE pulls
              /\ IF ok THEN Exit(r, 0) ELSE Exit(r, 1)
       ELSE Exit(r, 0) /\ UNCHANGED <<calls, pulls, output>>
    /\ UNCHANGED <<eventVars, nameVars, options, pull_number, repo, origin, now, inputs, advertised>>

(* ------------------------- reading the state ------------------------- *)
Done(r) == pc[r] = "done"

\* the operations a run has invoked, and those that succeeded
Invoked(r) == {calls[r][i].op : i \in 1..Len(calls[r])}

Succeeded(r) == {calls[r][i].op : i \in {j \in 1..Len(calls[r]) : calls[r][j].ok}}

LastCall(r) == calls[r][Len(calls[r])]

Printed(r, line) == \E i \in 1..Len(output[r]) : output[r][i] = line

\* what the run printed after the lines of get_github_event
Messages(r) == IF debug_event[r] THEN SubSeq(output[r], 3, Len(output[r])) ELSE output[r]

\* the branches the runs have added to the remote
Published == {b \in origin : b.name \notin D.remote}

HostingOps == {"createPullRequest", "setLabels", "setAssignees", "setMilestone",
               "requestReviewers", "requestTeamReviewers"}

(* -------------------------- specification ----------------------------- *)
Step(r) ==
    \/ Start(r)
    \/ OpenRepo(r)
    \/ NameBranch(r)
    \/ SetGitConfig(r)
    \/ Stash(r)
    \/ Checkout(r)
    \/ StashPop(r)
    \/ TakeTheirs(r)
    \/ ResetIndex(r)
    \/ CheckoutNew(r)
    \/ CheckDirty(r)
    \/ SetRemoteUrl(r)
    \/ Add(r)
    \/ Commit(r)
    \/ Push(r)
    \/ PushReceive(r)
    \/ CreatePull(r)
    \/ Labels(r)
    \/ Assignees(r)
    \/ Milestone(r)
    \/ Reviewers(r)
    \/ TeamReviewers(r)

Next == \E r \in Runs : Step(r)

Spec == Init /\ [][Next]_vars

(* ============================== claims =============================== *)

(* C2.  For every trigger event, ignore_event returns true exactly when    *)
(* the event is a push and (deleted is true or ref does not start with     *)
(* 'refs/heads/'), and false for every other event whatever its ref and    *)
(* deleted are.  Stated of every run that has read its event: the value of *)
(* ignore_event, the line it prints, and, when SKIP_IGNORE is not set, the *)
(* run ending there with status 0.                                         *)
IgnorableEvent(r) ==
    /\ event_name[r] = "push"
    /\ \/ event_data[r].deleted
       \/ Len(event_data[r].ref) < 11
       \/ SubSeq(event_data[r].ref, 1, 11) # RefsHeads

EndedAtClassification(r) ==
    /\ Done(r)
    /\ exit_code[r] = 0
    /\ Messages(r) \in {<<"Ignoring delete branch event.">>,
                      <<"Ignoring events for tags and remotes.">>}

C2_ClassifierCorrect ==
    \A r \in Runs :
        pc[r] # "idle" =>
            /\ ignore_event(event_name[r], event_data[r]) = IgnorableEvent(r)
            /\ ~skip_ignore_event[r] => (EndedAtClassification(r) <=> IgnorableEvent(r))

\* a push of a tag that is not a deletion was ignored, and a non-push
\* event with deleted set and a tag ref was not
C2_Witness ==
    /\ EndedAtClassification(1)
    /\ event_name[1] = "push" /\ ~event_data[1].deleted /\ event_data[1].ref = RefTag
    /\ pc[2] = "repo" /\ ~skip_ignore_event[2]
    /\ event_name[2] = "workflow_dispatch" /\ event_data[2].deleted /\ event_data[2].ref = RefTag

(* C3.  Self-reference guard: in every run where the configured            *)
(* (unsuffixed) pull request branch name is a prefix of the current branch *)
(* name, the run exits with status 0 before any stash, checkout, commit,   *)
(* push or pull request creation: it has invoked no collaborator operation *)
(* at all.                                                                 *)
ConfiguredBranch(r) == Getenv(pull_request_branch[r], DefaultBranch)

IsPrefix(p, str) == Len(p) <= Len(str) /\ \A i \in 1..Len(p) : p[i] = str[i]

PastGuard(r) == pc[r] \notin {"idle", "repo"}

C3_SelfReferenceGuard ==
    \A r \in Runs :
        PastGuard(r) /\ IsPrefix(ConfiguredBranch(r), base[r]) =>
            /\ Done(r)
            /\ exit_code[r] = 0
            /\ calls[r] = <<>>
            /\ Messages(r) = <<"Branch was created by this action. Skipping.">>

\* the run on create-pull-request/patch-def5678 with the default branch
\* name ended at the guard
C3_Witness ==
    /\ Done(1)
    /\ pull_request_branch[1] = Unset
    /\ base[1] = DefaultBranch \o <<"-","d","e","f","5","6","7","8">>
    /\ calls[1] = <<>>
    /\ exit_code[1] = 0

(* C4.  When the strategy is short-commit-hash and the remote-branch check *)
(* finds the resolved branch on the remote, the run terminates at once     *)
(* with status 0: no setIdentity, stash, checkout, commit, push or         *)
(* hosting-API call happens in that run.  The branch is on the remote for  *)
(* the check when the clone has a remote-tracking ref of the resolved name *)
(* that the run did not push itself.                                       *)
PastNaming(r) == pc[r] \notin {"idle", "repo", "name"}

ShortHashName(r) == Suffixed(ConfiguredBranch(r), SubSeq(repo[r].sha, 1, repo[r].abbrev))

C4_ExistingBranchSkip ==
    \A r \in Runs :
        /\ PastNaming(r)
        /\ branch_suffix[r] = ShortCommitHash
        /\ \/ remote_exists[r]
           \/ /\ "forcePush" \notin Succeeded(r)
              /\ \E ref \in repo[r].refs : ref.name = ShortHashName(r)
        => /\ Done(r)
           /\ exit_code[r] = 0
           /\ calls[r] = <<>>
           /\ remote_exists[r]
           /\ Messages(r) = <<"Pull request branch already exists for this commit. Skipping.">>

\* the second run found the branch that the first run pushed for the
\* same commit
C4_Witness ==
    /\ Done(1) /\ "forcePush" \in Succeeded(1)
    /\ Done(2) /\ branch_suffix[2] = ShortCommitHash
    /\ branch[2] = branch[1]
    /\ [name |-> branch[2], tree |-> repo[1].head] \in repo[2].fetched
    /\ calls[2] = <<>>

(* C1.  Under the short-commit-hash strategy, two runs of the full flow in *)
(* succession on the same HEAD commit.  As claimed: for every workspace    *)
(* state they leave exactly one remote branch and at most one pull         *)
(* request, and the second run ends as a branch-already-exists skip        *)
(* without calling createPullRequest.  Read in the claim's favour: of runs *)
(* in which no operation failed.  The runs are in succession when the      *)
(* second one cloned the remote after the push of the first, so that its   *)
(* clone fetched the branch as the first run pushed it.                    *)
NoFailure(r) == \A i \in 1..Len(calls[r]) : calls[r][i].ok

InSuccession ==
    "forcePush" \in Succeeded(1) =>
        [name |-> branch[1], tree |-> repo[1].head] \in repo[2].fetched

TwoRunsOneCommit ==
    /\ Done(1) /\ Done(2)
    /\ InSuccession
    /\ branch_suffix[1] = ShortCommitHash /\ branch_suffix[2] = ShortCommitHash
    /\ repo[1].sha = repo[2].sha
    /\ pull_request_branch[1] = pull_request_branch[2]
    /\ base[1] = base[2]

SkippedAsExisting(r) ==
    /\ exit_code[r] = 0
    /\ calls[r] = <<>>
    /\ Messages(r) = <<"Pull request branch already exists for this commit. Skipping.">>

C1_Original ==
    TwoRunsOneCommit /\ NoFailure(1) /\ NoFailure(2) =>
        /\ Cardinality(Published) = 1
        /\ Len(pulls) <= 1
        /\ SkippedAsExisting(2)
        /\ "createPullRequest" \notin Invoked(2)

(* C1, amended.  When git abbreviates the commit hash to the same length   *)
(* in both clones, the two runs leave at most one remote branch and at     *)
(* most one pull request; when the first run force-pushed its branch there *)
(* is exactly one remote branch, and the second run ends as a              *)
(* branch-already-exists skip that invokes no operation, createPullRequest *)
(* included.  (A first run on a clean workspace, or one that fails before  *)
(* its push, publishes no branch and the second run does not skip; a       *)
(* second clone with a longer abbreviation resolves another branch name.)  *)
SameAbbreviation == repo[1].abbrev = repo[2].abbrev

C1_IdempotentOnceBranchPushed ==
    TwoRunsOneCommit /\ SameAbbreviation =>
        /\ Cardinality(Published) <= 1
        /\ Len(pulls) <= 1
        /\ "forcePush" \in Succeeded(1) =>
              /\ Cardinality(Published) = 1
              /\ SkippedAsExisting(2)
              /\ "createPullRequest" \notin Invoked(2)

\* the first run published branch and pull request, the second one skipped
C1_Witness ==
    /\ TwoRunsOneCommit /\ SameAbbreviation
    /\ "forcePush" \in Succeeded(1) /\ "createPullRequest" \in Succeeded(1)
    /\ Cardinality(Published) = 1 /\ Len(pulls) = 1
    /\ SkippedAsExisting(2)

(* C5.  As claimed: in every run whose remote-branch check reported that   *)
(* the resolved branch already existed, createPullRequest and the metadata *)
(* calls are never invoked, and if the workspace is dirty the run          *)
(* force-pushes the branch and then terminates with status 0.  Read in the *)
(* claim's favour: dirty at the check of line 212.                         *)
FoundDirty(r) == Printed(r, "Repository has modified or untracked files.")

C5_Original ==
    \A r \in Runs :
        remote_exists[r] =>
            /\ Invoked(r) \cap HostingOps = {}
            /\ Done(r) /\ FoundDirty(r) =>
                  /\ "forcePush" \in Succeeded(r)
                  /\ exit_code[r] = 0

(* C5, amended.  In every run whose remote-branch check reported that the  *)
(* resolved branch already existed, createPullRequest and the metadata     *)
(* calls are never invoked; if the run finds the workspace dirty at line   *)
(* 212 and setRemoteUrl, add, commit and push succeed, it ends right after *)
(* the force-push with status 0, and if one of them fails it ends with     *)
(* status 1 without a later operation.                                     *)
C5_ExistingBranchOnlyUpdated ==
    \A r \in Runs :
        remote_exists[r] =>
            /\ Invoked(r) \cap HostingOps = {}
            /\ Done(r) /\ FoundDirty(r) =>
                  \/ /\ {"setRemoteUrl", "add", "commitAll", "forcePush"} \subseteq Succeeded(r)
                     /\ LastCall(r) = Call("forcePush", branch[r], TRUE)
                     /\ exit_code[r] = 0
                     /\ Printed(r, "Updated pull request branch.")
                  \/ /\ ~LastCall(r).ok
                     /\ LastCall(r).op \in {"setRemoteUrl", "add", "commitAll", "forcePush"}
                     /\ exit_code[r] = 1

\* a run that found its branch on the remote and the workspace dirty
\* pushed and ended with status 0
C5_Witness ==
    \E r \in Runs :
        /\ remote_exists[r] /\ Done(r) /\ FoundDirty(r)
        /\ LastCall(r) = Call("forcePush", branch[r], TRUE)
        /\ exit_code[r] = 0

(* C6.  No-op on a clean tree: a run that, at the check of line 212, finds *)
(* isDirty() false and untrackedFiles() empty ends there with status 0,    *)
(* and neither before nor after has it invoked commitAll, forcePush,       *)
(* setRemoteUrl or createPullRequest; the remote and the pull requests are *)
(* left as they were.  A run that is done takes no further step.           *)
PublishOps == {"commitAll", "forcePush", "setRemoteUrl", "createPullRequest"}

CleanAtCheck(r) ==
    /\ pc[r] = "dirty"
    /\ ~IsDirty(repo[r])
    /\ UntrackedFiles(repo[r]) = {}

C6_CleanTreeNoOp ==
    [][\A r \in Runs :
          /\ CleanAtCheck(r) /\ pc'[r] # pc[r] =>
                /\ pc'[r] = "done"
                /\ exit_code'[r] = 0
                /\ calls'[r] = calls[r]
                /\ Invoked(r) \cap PublishOps = {}
                /\ origin' = origin
                /\ pulls' = pulls
          /\ Done(r) => pc'[r] = "done" /\ calls'[r] = calls[r] /\ exit_code'[r] = exit_code[r]
      ]_vars

\* a run on a new branch found nothing to publish and ended with status 0
C6_Witness ==
    \E r \in Runs :
        /\ Done(r) /\ exit_code[r] = 0
        /\ Messages(r) = <<"Repository has no modified or untracked files. Skipping.">>
        /\ LastCall(r) = Call("checkoutNew", branch[r], TRUE)
        /\ ~IsDirty(repo[r]) /\ UntrackedFiles(repo[r]) = {}

(* C7.  Conflict fallback.  As claimed: when the target branch exists      *)
(* remotely and re-applying the stash fails on a file whose stashed local  *)
(* content differs from the branch's content, reconciliation completes     *)
(* and afterwards the working-tree content of every conflicting file       *)
(* equals the checked-out branch's version, not the stashed local one.     *)
(* The conflicting files are those that the stash and the branch both      *)
(* changed, to different contents; the stash entry is kept by the failed   *)
(* pop.  The state is the one right after the fallback, in inputs where    *)
(* no operation fails for an outside reason, so that the pop failed on the *)
(* conflict.  The code violates it: in a stash pop the "theirs" side that  *)
(* line 81 takes is the stash, so the stashed local content is what the    *)
(* working tree holds afterwards.                                          *)
HasStash(r) == repo[r].stash # <<>>

NoOutsideFailure == D.oks = {TRUE}

ConflictFiles(r) ==
    {f \in Files : /\ BaseTree[f] # Absent
                   /\ repo[r].stash[1][f] # BaseTree[f]
                   /\ repo[r].head[f] # BaseTree[f]
                   /\ repo[r].stash[1][f] # repo[r].head[f]}

ConflictResolved(r) ==
    /\ NoOutsideFailure
    /\ remote_exists[r]
    /\ pc[r] = "dirty"
    /\ Len(calls[r]) >= 3
    /\ calls[r][Len(calls[r]) - 2] = Call("stashPop", <<>>, FALSE)
    /\ calls[r][Len(calls[r]) - 1] = Call("takeTheirs", <<>>, TRUE)
    /\ LastCall(r) = Call("resetIndex", <<>>, TRUE)
    /\ HasStash(r)
    /\ ConflictFiles(r) # {}

C7_Original ==
    \A r \in Runs :
        ConflictResolved(r) =>
            \A f \in ConflictFiles(r) :
                /\ repo[r].wt[f] = repo[r].head[f]
                /\ repo[r].wt[f] # repo[r].stash[1][f]

\* the branch holds x = "a", the run stashed x = "b", and after the
\* fallback the working tree holds "b"
C7_Witness ==
    \E r \in Runs :
        /\ ConflictResolved(r)
        /\ repo[r].head.x = "a"
        /\ repo[r].stash[1].x = "b"
        /\ repo[r].wt.x = "b"

(* C8.  A stash-pop failure is never surfaced as a run failure: in every   *)
(* run in which stashPop failed the take-theirs and reset fallback is      *)
(* executed, and the run does not end with a non-zero exit status because  *)
(* of the reconciliation, also when takeTheirs or resetIndex fail.         *)
(* Stated on finished runs; the code violates it.                          *)
PopFailed(r) == \E i \in 1..Len(calls[r]) : calls[r][i] = Call("stashPop", <<>>, FALSE)

FallbackOps == {"takeTheirs", "resetIndex"}

EndedInFallback(r) ==
    /\ Done(r)
    /\ exit_code[r] # 0
    /\ calls[r] # <<>>
    /\ LastCall(r).op \in FallbackOps
    /\ ~LastCall(r).ok

C8_Original ==
    \A r \in Runs :
        Done(r) /\ PopFailed(r) =>
            /\ FallbackOps \subseteq Invoked(r)
            /\ ~EndedInFallback(r)

\* with no operation failing for an outside reason: the branch changed x,
\* the workspace deleted it, the pop conflicts, git checkout --theirs .
\* finds no version to take and the run ends with status 1 before the reset
C8_Witness ==
    \E r \in Runs :
        /\ NoOutsideFailure
        /\ PopFailed(r)
        /\ EndedInFallback(r)
        /\ exit_code[r] = 1
        /\ LastCall(r) = Call("takeTheirs", <<>>, FALSE)
        /\ "resetIndex" \notin Invoked(r)
        /\ repo[r].head.x = "a"
        /\ repo[r].stash[1].x = Absent

(* C9.  When two runs with the same resolved branch name race and the      *)
(* hosting API rejects the second run's createPullRequest because the pull *)
(* request already exists, the rejection is non-fatal: that run still ends *)
(* with exit status 0.  The code violates it.                              *)
RejectedAsExisting(r) ==
    /\ calls[r] # <<>>
    /\ LastCall(r) = Call("createPullRequest", branch[r], FALSE)
    /\ PullExists(branch[r], base[r])
    /\ \E q \in Runs \ {r} :
          /\ branch[q] = branch[r]
          /\ "createPullRequest" \in Succeeded(q)

C9_Original ==
    \A r \in Runs :
        Done(r) /\ RejectedAsExisting(r) => exit_code[r] = 0

\* both runs found the branch absent, both pushed it, one created the pull
\* request and the other's creation was rejected: it ended with status 1
C9_Witness ==
    \E r \in Runs :
        /\ Done(r)
        /\ RejectedAsExisting(r)
        /\ ~remote_exists[r]
        /\ "forcePush" \in Succeeded(r)
        /\ exit_code[r] = 1

(* C10.  Fail-fast on version control: when stash, the initial checkout    *)
(* (of the existing or of the new branch), commitAll or forcePush fails,   *)
(* the run ends at once with a non-zero exit status and invokes no later   *)
(* operation: the failed call is the run's last call.  In particular       *)
(* createPullRequest never follows a failed commit or push, and stashPop   *)
(* never follows a failed stash or checkout.                               *)
FatalOps == {"stash", "checkout", "checkoutNew", "commitAll", "forcePush"}

FailedAt(r, i) == calls[r][i].op \in FatalOps /\ ~calls[r][i].ok

C10_FailFast ==
    \A r \in Runs :
        \A i \in 1..Len(calls[r]) :
            FailedAt(r, i) =>
                /\ i = Len(calls[r])
                /\ Done(r)
                /\ exit_code[r] # 0
                /\ calls[r][i].op \in {"commitAll", "forcePush"}
                      => "createPullRequest" \notin Invoked(r)
                /\ calls[r][i].op \in {"stash", "checkout"}
                      => "stashPop" \notin Invoked(r)

\* a run whose commit succeeded and whose force-push failed
C10_Witness ==
    \E r \in Runs :
        /\ Done(r)
        /\ exit_code[r] = 1
        /\ "commitAll" \in Succeeded(r)
        /\ LastCall(r) = Call("forcePush", branch[r], FALSE)
        /\ \A ref \in origin : ref.name # branch[r]

(* C11.  The event classifier gates everything: in every run where the     *)
(* override flag is not set and ignore_event returns true, no version      *)
(* control operation and no hosting operation is invoked, the clone is not *)
(* even opened, the remote and the pull requests are left as they were,    *)
(* and the run exits with status 0.  Stated of the step that classifies    *)
(* the event and of every later step.                                      *)
Gated(r) ==
    /\ pc[r] # "idle"
    /\ ~skip_ignore_event[r]
    /\ ignore_event(event_name[r], event_data[r])

Untouched(r) == calls[r] = <<>> /\ repo[r] = NoRepo

C11_ClassifierGates ==
    [][\A r \in Runs :
          /\ /\ pc[r] = "idle" /\ pc'[r] # "idle"
             /\ ~skip_ignore_event'[r]
             /\ ignore_event(event_name'[r], event_data'[r])
             => /\ pc'[r] = "done"
                /\ exit_code'[r] = 0
                /\ calls'[r] = <<>> /\ repo'[r] = NoRepo
                /\ origin' = origin /\ pulls' = pulls
          /\ Gated(r) =>
                /\ Done(r) /\ exit_code[r] = 0 /\ Untouched(r)
                /\ pc'[r] = "done" /\ exit_code'[r] = 0
                /\ calls'[r] = <<>> /\ repo'[r] = NoRepo
      ]_vars

\* the push that deleted a branch was ignored: nothing was invoked
C11_Witness ==
    \E r \in Runs :
        /\ Gated(r)
        /\ event_name[r] = "push" /\ event_data[r].deleted /\ event_data[r].ref = RefMain
        /\ Done(r) /\ exit_code[r] = 0
        /\ Untouched(r)
        /\ Messages(r) = <<"Ignoring delete branch event.">>

(* C12.  When the override flag SKIP_IGNORE is set the run never ignores   *)
(* the event: for every event, deletions and tag pushes included, the      *)
(* classification prints nothing and ends nothing, and the flow goes on to *)
(* the self-reference guard and the branch naming as for an event that is  *)
(* not ignorable: the run opens the clone, and it ends before the naming   *)
(* only at the guard.                                                      *)
IgnoreLines == {"Ignoring delete branch event.", "Ignoring events for tags and remotes."}

Overridden(r) == pc[r] # "idle" /\ skip_ignore_event[r]

C12_OverrideNeverIgnores ==
    \A r \in Runs :
        Overridden(r) =>
            /\ \A i \in 1..Len(output[r]) : output[r][i] \notin IgnoreLines
            /\ pc[r] = "repo" \/ repo[r] # NoRepo
            /\ Done(r) /\ calls[r] = <<>> =>
                  \/ /\ IsPrefix(ConfiguredBranch(r), base[r])
                     /\ Messages(r) = <<"Branch was created by this action. Skipping.">>
                  \/ /\ branch_suffix[r] = ShortCommitHash /\ remote_exists[r]
                     /\ Messages(r) = <<"Pull request branch already exists for this commit. Skipping.">>

\* with SKIP_IGNORE set, the push of a deleted tag went all the way to a
\* pull request
C12_Witness ==
    \E r \in Runs :
        /\ Overridden(r)
        /\ event_name[r] = "push" /\ event_data[r].deleted /\ event_data[r].ref = RefTag
        /\ ignore_event(event_name[r], event_data[r])
        /\ "createPullRequest" \in Succeeded(r)

(* C13.  After a pull request is created, each configured metadata step    *)
(* (labels, assignees, milestone, reviewers, team reviewers) is its own    *)
(* fallible operation that is fatal when it fails: the run ends with a     *)
(* non-zero exit status, no later metadata step is attempted, the pull     *)
(* request that was created and the metadata already applied stay as they  *)
(* are, and a step whose option is not configured is never invoked.  A     *)
(* milestone value that int() refuses fails the milestone step before the  *)
(* service is called, with the same consequences.                          *)
MetaOps == <<"setLabels", "setAssignees", "setMilestone", "requestReviewers",
             "requestTeamReviewers">>

MetaOption(r, k) ==
    CASE k = 1 -> options[r].labels
      [] k = 2 -> options[r].assignees
      [] k = 3 -> options[r].milestone
      [] k = 4 -> options[r].reviewers
      [] k = 5 -> options[r].team_reviewers

\* the value step k has left on the pull request of run r
MetaValue(r, k) ==
    LET p == pulls[pull_number[r]]
    IN  CASE k = 1 -> p.labels
          [] k = 2 -> p.assignees
          [] k = 3 -> p.milestone
          [] k = 4 -> p.reviewers
          [] k = 5 -> p.team_reviewers

MetaWanted(r, k) ==
    IF k = 3 THEN PyInt(MetaOption(r, k)) ELSE cs_string_to_list(MetaOption(r, k))

MetaIndex(op) == CHOOSE k \in 1..5 : MetaOps[k] = op

IsMetaOp(op) == \E k \in 1..5 : MetaOps[k] = op

OwnPullKept(r) ==
    /\ pull_number[r] \in 1..Len(pulls)
    /\ pulls[pull_number[r]].head = branch[r]
    /\ pulls[pull_number[r]].base = base[r]

\* the milestone step of run r has begun with a value int() refuses: the
\* step fails before the service is called
MilestoneUnread(r) ==
    /\ pc[r] \notin {"idle", "repo", "name", "config", "checkout", "switch", "pop", "theirs",
                      "reset", "dirty", "process", "add", "commit", "push", "receive",
                      "create", "labels", "assignees", "milestone"}
    /\ pull_number[r] # 0
    /\ options[r].milestone # Unset
    /\ ~IsInt(options[r].milestone)

C13_MetadataStepsFatal ==
    \A r \in Runs :
        /\ \A i \in 1..Len(calls[r]) :
              IsMetaOp(calls[r][i].op) =>
                  LET k == MetaIndex(calls[r][i].op)
                  IN  /\ MetaOption(r, k) # Unset
                      /\ \E j \in 1..(i - 1) :
                            calls[r][j] = Call("createPullRequest", branch[r], TRUE)
                      /\ \A j \in 1..(i - 1) :
                            IsMetaOp(calls[r][j].op) => MetaIndex(calls[r][j].op) < k
                      /\ OwnPullKept(r)
                      /\ calls[r][i].ok => MetaValue(r, k) = MetaWanted(r, k)
                      /\ ~calls[r][i].ok =>
                            /\ i = Len(calls[r])
                            /\ Done(r)
                            /\ exit_code[r] # 0
        /\ MilestoneUnread(r) =>
              /\ Done(r) /\ exit_code[r] # 0
              /\ OwnPullKept(r)
              /\ Invoked(r) \cap {"setMilestone", "requestReviewers",
                                  "requestTeamReviewers"} = {}

\* labels were applied, the assignees step failed: the run ended with
\* status 1, the pull request keeps its labels, and the configured
\* milestone and reviewers were never attempted
C13_Witness ==
    \E r \in Runs :
        /\ Done(r) /\ exit_code[r] = 1
        /\ LastCall(r) = Call("setAssignees", <<>>, FALSE)
        /\ Call("setLabels", <<>>, TRUE) = calls[r][Len(calls[r]) - 1]
        /\ OwnPullKept(r)
        /\ pulls[pull_number[r]].labels =
              << <<"b","u","g">>, <<"h","e","l","p"," ","w","a","n","t","e","d">> >>
        /\ pulls[pull_number[r]].assignees = <<>>
        /\ options[r].milestone = <<"1">>
        /\ options[r].reviewers = UserList
        /\ options[r].team_reviewers = Unset
        /\ Invoked(r) \cap {"setMilestone", "requestReviewers", "requestTeamReviewers"} = {}

(* C14.  Exactly one resolved branch name is computed per run, and the     *)
(* same name is the argument of the remote-existence check, of the         *)
(* checkout (of the existing or of the newly created branch), of the       *)
(* force-push and the head of the pull request; no step of the run uses a  *)
(* different or re-derived name.  Stated of every step: the naming step    *)
(* looks up the name it resolves, later steps leave the name alone, every  *)
(* named call carries it, a push changes only the remote branch git reads  *)
(* the name as (the branch of that name, which the run is on; for the name *)
(* HEAD the branch the clone is on), and the run's pull request has the    *)
(* name as head.                                                           *)
Named(r) == branch_suffix[r] # Unset

BranchOps == {"checkout", "checkoutNew", "forcePush", "createPullRequest"}

PushedNow(r) ==
    /\ Len(calls'[r]) = Len(calls[r]) + 1
    /\ calls'[r][Len(calls'[r])].op = "forcePush"
    /\ calls'[r][Len(calls'[r])].ok

C14_OneBranchName ==
    [][\A r \in Runs :
          /\ ~Named(r) /\ branch_suffix'[r] # Unset =>
                remote_exists'[r] = (\E ref \in repo[r].refs : ref.name = branch'[r])
          /\ Named(r) => branch'[r] = branch[r] /\ remote_exists'[r] = remote_exists[r]
          /\ \A i \in 1..Len(calls'[r]) :
                calls'[r][i].op \in BranchOps => calls'[r][i].arg = branch'[r]
          /\ pull_number'[r] # 0 => pulls'[pull_number'[r]].head = branch'[r]
          /\ PushedNow(r) =>
                /\ \E ref \in origin' : ref.name = repo[r].cur
                /\ \A ref \in origin' \ origin : ref.name = repo[r].cur
                /\ \A ref \in origin \ origin' : ref.name = repo[r].cur
                /\ repo'[r].cur = repo[r].cur
                /\ branch[r] # HEAD => repo[r].cur = branch[r]
      ]_vars

\* a run under the random strategy: the suffixed name was checked out,
\* pushed and made the head of the pull request
C14_Witness ==
    \E r \in Runs :
        /\ branch_suffix[r] = Random
        /\ branch[r] = DefaultBranch \o <<"-">> \o RndA
        /\ ~remote_exists[r]
        /\ Len(calls[r]) >= 7
        /\ Call("checkoutNew", branch[r], TRUE) = calls[r][2]
        /\ Call("forcePush", branch[r], TRUE) = calls[r][6]
        /\ Call("createPullRequest", branch[r], TRUE) = calls[r][7]
        /\ pulls[pull_number[r]].head = DefaultBranch \o <<"-">> \o RndA
        /\ \E ref \in origin : ref.name = DefaultBranch \o <<"-">> \o RndA

(* C15.  Reconciliation ordering: when the branch exists remotely the      *)
(* steps occur strictly in the order stash (untracked files included),     *)
(* checkout of the branch, stashPop; takeTheirs followed by resetIndex     *)
(* occur only after, and only if, stashPop failed.  When the branch does   *)
(* not exist the only reconciliation step is the creation and checkout of  *)
(* the new branch from HEAD: no stash, pop, takeTheirs or reset.  Stated   *)
(* through the call that immediately precedes each reconciliation call.    *)
ReconcileOps == {"stash", "checkout", "stashPop", "takeTheirs", "resetIndex"}

\* call i of run r is op, and the call before it is prev with outcome ok
Follows(r, i, prev, ok) == i > 1 /\ calls[r][i - 1].op = prev /\ calls[r][i - 1].ok = ok

OrderedAt(r, i) ==
    LET op == calls[r][i].op
    IN  /\ op = "setIdentity" => i = 1
        /\ op = "stash" => remote_exists[r] /\ Follows(r, i, "setIdentity", TRUE)
        /\ op = "checkout" => Follows(r, i, "stash", TRUE)
        /\ op = "stashPop" => Follows(r, i, "checkout", TRUE)
        /\ op = "takeTheirs" => Follows(r, i, "stashPop", FALSE)
        /\ op = "resetIndex" => Follows(r, i, "takeTheirs", TRUE)
        /\ op = "checkoutNew" => ~remote_exists[r] /\ Follows(r, i, "setIdentity", TRUE)
        /\ op = "stashPop" /\ ~calls[r][i].ok /\ (i < Len(calls[r]) \/ Done(r)) =>
              i < Len(calls[r]) /\ calls[r][i + 1].op = "takeTheirs"
        /\ op = "stashPop" /\ calls[r][i].ok =>
              Invoked(r) \cap {"takeTheirs", "resetIndex"} = {}

C15_ReconciliationOrder ==
    \A r \in Runs :
        /\ \A i \in 1..Len(calls[r]) : OrderedAt(r, i)
        /\ Named(r) /\ ~remote_exists[r] => Invoked(r) \cap ReconcileOps = {}
        /\ Named(r) /\ remote_exists[r] => "checkoutNew" \notin Invoked(r)
        /\ calls[r] # <<>> /\ LastCall(r) = Call("stash", <<>>, TRUE) =>
              /\ ~IsDirty(repo[r])
              /\ UntrackedFiles(repo[r]) = {}

\* one run took the new-branch path, the other found the branch and went
\* through stash, checkout, failed pop, takeTheirs and reset, in that order
C15_Witness ==
    \E r, q \in Runs :
        /\ ~remote_exists[r]
        /\ Len(calls[r]) >= 2
        /\ calls[r][2] = Call("checkoutNew", branch[r], TRUE)
        /\ remote_exists[q]
        /\ Len(calls[q]) >= 6
        /\ [i \in 2..6 |-> calls[q][i].op] =
              [i \in 2..6 |-> <<"", "stash", "checkout", "stashPop", "takeTheirs",
                                "resetIndex">>[i]]
        /\ ~calls[q][4].ok

(* C16.  createPullRequest is invoked in a run only after a successful     *)
(* commitAll and a successful forcePush of the same resolved branch in     *)
(* that same run, and only when that run's existence check reported the    *)
(* branch as absent; it is invoked at most once per run.                   *)
CreateCalls(r) == {i \in 1..Len(calls[r]) : calls[r][i].op = "createPullRequest"}

C16_CreateAfterPublish ==
    \A r \in Runs :
        /\ Cardinality(CreateCalls(r)) <= 1
        /\ \A i \in CreateCalls(r) :
              /\ ~remote_exists[r]
              /\ i > 2
              /\ calls[r][i - 2] = Call("commitAll", <<>>, TRUE)
              /\ calls[r][i - 1] = Call("forcePush", calls[r][i].arg, TRUE)
              /\ calls[r][i].arg = branch[r]

\* one run committed, pushed and created the pull request; the other
\* found the branch, committed and pushed, and created none
C16_Witness ==
    \E r, q \in Runs :
        /\ Done(r) /\ ~remote_exists[r]
        /\ CreateCalls(r) = {7}
        /\ calls[r][7].ok
        /\ Done(q) /\ remote_exists[q] /\ exit_code[q] = 0
        /\ {"commitAll", "forcePush"} \subseteq Succeeded(q)
        /\ CreateCalls(q) = {}

(* C17.  The existence check and the push are not atomic across runs:      *)
(* with two concurrent runs that resolve the same branch name there is a   *)
(* reachable interleaving in which both runs observe the branch as absent, *)
(* both take the new-branch path, both force-push and both call            *)
(* createPullRequest; the last push determines the content of the remote   *)
(* branch.  The interleaving is the state C17_Witness; the formula states  *)
(* what holds of every such interleaving: each force-push replaces the     *)
(* remote branch with the pusher's commit whatever was there, and of the   *)
(* two createPullRequest calls at most one succeeds.                       *)
BothBelieveNew(r, q) ==
    /\ r # q
    /\ Named(r) /\ Named(q)
    /\ branch[r] = branch[q]
    /\ ~remote_exists[r] /\ ~remote_exists[q]
    /\ "checkoutNew" \in Succeeded(r) /\ "checkoutNew" \in Succeeded(q)
    /\ "forcePush" \in Succeeded(r) /\ "forcePush" \in Succeeded(q)

C17_LastPushWins ==
    [][\A r \in Runs :
          /\ PushedNow(r) =>
                /\ [name |-> repo[r].cur, tree |-> repo[r].head] \in origin'
                /\ \A ref \in origin' : ref.name = repo[r].cur => ref.tree = repo[r].head
                /\ branch[r] # HEAD => repo[r].cur = branch[r]
          /\ \A q \in Runs :
                BothBelieveNew(r, q) /\ base[r] = base[q] =>
                    ~("createPullRequest" \in Succeeded(r) /\ "createPullRequest" \in Succeeded(q))
      ]_vars

\* both runs found the branch absent, created it and pushed; run 1
\* created the pull request, run 2's creation was rejected, and the remote
\* branch holds run 2's commit, not run 1's
C17_Witness ==
    /\ BothBelieveNew(1, 2)
    /\ "createPullRequest" \in Succeeded(1)
    /\ "createPullRequest" \in Invoked(2)
    /\ repo[1].head # repo[2].head
    /\ [name |-> branch[1], tree |-> repo[2].head] \in origin
    /\ \A ref \in origin : ref.tree # repo[1].head

(* C18.  The stash is never lost: in every run in which the stash step     *)
(* succeeded, at every later point and at every way the run can end        *)
(* (checkout failure, pop success, pop conflict with fallback, fallback    *)
(* failure, later publish failure), the stashed local modifications are    *)
(* either re-applied to the working tree or still held in the stash.       *)
(* Stated of every step: the stash step stores the workspace's changes,    *)
(* an entry leaves the stash only in a step that puts each change it holds *)
(* into the working tree, and once re-applied the working tree is not      *)
(* changed again.                                                          *)
LocalChanges(tree) == {f \in Files : tree[f] # BaseTree[f]}

StashedNow(r) ==
    /\ Len(calls'[r]) = Len(calls[r]) + 1
    /\ calls'[r][Len(calls'[r])] = Call("stash", <<>>, TRUE)

C18_StashNeverLost ==
    [][\A r \in Runs :
          /\ StashedNow(r) /\ LocalChanges(repo[r].wt) # {} =>
                repo'[r].stash = <<repo[r].wt>> \o repo[r].stash
          /\ HasStash(r) =>
                \/ repo'[r].stash = repo[r].stash
                \/ /\ repo'[r].stash = Tail(repo[r].stash)
                   /\ \A f \in LocalChanges(repo[r].stash[1]) :
                         repo'[r].wt[f] = repo[r].stash[1][f]
          /\ "stashPop" \in Succeeded(r) => repo'[r].wt = repo[r].wt
      ]_vars

\* the pop conflicted, the fallback ran, the push failed: the run ended
\* with status 1 and the stash still holds the workspace's x and z
C18_Witness ==
    \E r \in Runs :
        /\ Done(r) /\ exit_code[r] = 1
        /\ PopFailed(r)
        /\ "resetIndex" \in Succeeded(r)
        /\ LastCall(r) = Call("forcePush", branch[r], FALSE)
        /\ HasStash(r)
        /\ repo[r].stash[1] = [x |-> "b", z |-> "a"]

(* C19.  A clean-tree run is a no-op on the local repository: when the     *)
(* workspace has no modified and no untracked files the run short-circuits *)
(* leaving the version-control state unchanged: the checked-out branch,    *)
(* the set of local branches, the stash contents and the configured        *)
(* identity are the same as before the run.  A run whose workspace was     *)
(* clean is recognised at its end: it took the skip of line 216 with an    *)
(* empty stash, no operation failed for an outside reason, and on the      *)
(* existing-branch path the pop found no entry.  The code violates it.     *)
SkippedClean(r) ==
    /\ Done(r) /\ exit_code[r] = 0
    /\ Messages(r) = <<"Repository has no modified or untracked files. Skipping.">>

CleanRun(r) ==
    /\ NoOutsideFailure
    /\ SkippedClean(r)
    /\ ~HasStash(r)
    /\ remote_exists[r] => PopFailed(r)

C19_Original ==
    \A r \in Runs :
        CleanRun(r) =>
            /\ repo[r].cur = base[r]
            /\ repo[r].locals = {base[r]}
            /\ repo[r].stash = <<>>
            /\ repo[r].ident = Unassigned

\* a dispatched run on main with a clean workspace: it ends with the skip
\* message, on the new pull request branch and with the identity set
C19_Witness ==
    \E r \in Runs :
        /\ CleanRun(r)
        /\ ~remote_exists[r]
        /\ base[r] = <<"m","a","i","n">>
        /\ repo[r].wt = BaseTree /\ repo[r].head = BaseTree
        /\ calls[r] = <<Call("setIdentity", <<>>, TRUE), Call("checkoutNew", branch[r], TRUE)>>
        /\ repo[r].cur = branch[r]
        /\ repo[r].locals = {base[r], branch[r]}
        /\ repo[r].ident = "OpenOSRS"

(* C20.  Under the short-commit-hash strategy the existing-branch          *)
(* reconciliation path is unreachable: in no run with that strategy are    *)
(* stash, the checkout of an existing branch, stashPop, takeTheirs or      *)
(* resetIndex ever invoked, and every such run that reaches process_event  *)
(* and its create-or-exit test does so with the existence flag false: it   *)
(* never ends as an update of an existing branch.                          *)
ShortHashRun(r) == branch_suffix[r] = ShortCommitHash

C20_NoReconcileUnderShortHash ==
    \A r \in Runs :
        ShortHashRun(r) =>
            /\ Invoked(r) \cap ReconcileOps = {}
            /\ calls[r] # <<>> => ~remote_exists[r]
            /\ pc[r] \in {"process", "add", "commit", "push", "create"} => ~remote_exists[r]
            /\ \A i \in 1..Len(output[r]) : output[r][i] # "Updated pull request branch."
            /\ Done(r) /\ "forcePush" \in Succeeded(r) => "createPullRequest" \in Invoked(r)

\* the remote holds the branch of another commit; a short-commit-hash run
\* on commit def5678abc resolved a name that is absent, took the new-branch
\* path and created its pull request
C20_Witness ==
    \E r \in Runs :
        /\ ShortHashRun(r)
        /\ repo[r].sha = ShaB
        /\ \E ref \in repo[r].fetched : ref.name \notin {Main, branch[r]}
        /\ ~remote_exists[r]
        /\ calls[r] # <<>>
        /\ LastCall(r) = Call("createPullRequest", branch[r], TRUE)
        /\ Invoked(r) \cap ReconcileOps = {}

====
